---- MODULE Spec2Model ----
(***************************************************************************)
(* Model of the token connector's codecs (src/src/tokens/tokens.util.ts)   *)
(* and of the request handling that uses them.                             *)
(*                                                                         *)
(* A JavaScript string is modelled as a sequence of UTF-16 code units      *)
(* (naturals below 65536); a Buffer as a sequence of bytes.  The values    *)
(* null and undefined are the one-element sequences <<-1>> and <<-2>>,     *)
(* which no string equals.                                                 *)
(***************************************************************************)
EXTENDS Integers, Sequences, FiniteSets, TLC

VARIABLES hex, loc, sub, svc, pools, relay

vars == <<hex, loc, sub, svc, pools, relay>>

\* ------------------------------------------------------------------------
\* Bounds of the model
\* ------------------------------------------------------------------------

\* longest text handed to encodeHex
MaxTextLen == 3
\* longest raw payload handed to decodeHex
MaxPayloadLen == 4
\* longest field of a locator handed to packPoolLocator
MaxFieldLen == 2
\* most name=value pairs in a locator string handed to unpackPoolLocator
MaxPairs == 3
\* longest prefix and longest data handed to unpackSubscriptionName
MaxPrefixLen == 2
MaxDataLen == 4
\* longest event name handed to packSubscriptionName
MaxEventLen == 2
\* most requests the token service handles in one run
MaxRequests == 2

\* ------------------------------------------------------------------------
\* Values and string primitives of the language
\* ------------------------------------------------------------------------

null == <<-1>>
undefined == <<-2>>

SeqsUpTo(S, n) == UNION {[1..k -> S] : k \in 0..n}

\* s.startsWith(p)
StartsWith(s, p) == Len(p) <= Len(s) /\ SubSeq(s, 1, Len(p)) = p

\* s.indexOf(p), 1-based; 0 when p does not occur in s
IndexOf(s, p) ==
  LET hits == {i \in 1..(Len(s) - Len(p) + 1) : SubSeq(s, i, i + Len(p) - 1) = p}
  IN IF hits = {} THEN 0 ELSE CHOOSE i \in hits : \A j \in hits : i <= j

\* s.replace(p, r) with a string pattern: the first occurrence only
ReplaceFirst(s, p, r) ==
  LET i == IndexOf(s, p)
  IN IF i = 0 THEN s
     ELSE SubSeq(s, 1, i - 1) \o r \o SubSeq(s, i + Len(p), Len(s))

IsHighSurrogate(c) == c >= 55296 /\ c <= 56319
IsLowSurrogate(c) == c >= 56320 /\ c <= 57343

\* a string every code unit of which belongs to a Unicode scalar value
\* (no unpaired surrogate): the strings UTF-8 can represent
IsWellFormed(s) ==
  \A i \in 1..Len(s) :
    /\ IsHighSurrogate(s[i]) => (i < Len(s) /\ IsLowSurrogate(s[i + 1]))
    /\ IsLowSurrogate(s[i]) => (i > 1 /\ IsHighSurrogate(s[i - 1]))

\* the UTF-8 bytes of the code point cp
Utf8Bytes(cp) ==
  IF cp < 128 THEN <<cp>>
  ELSE IF cp < 2048 THEN <<192 + (cp \div 64), 128 + (cp % 64)>>
  ELSE IF cp < 65536
    THEN <<224 + (cp \div 4096), 128 + ((cp \div 64) % 64), 128 + (cp % 64)>>
  ELSE <<240 + (cp \div 262144), 128 + ((cp \div 4096) % 64),
         128 + ((cp \div 64) % 64), 128 + (cp % 64)>>

\* Buffer.from(s, 'utf8'): a surrogate pair is one code point, an unpaired
\* surrogate is written as U+FFFD
RECURSIVE Utf8Encode(_)
Utf8Encode(s) ==
  IF s = <<>> THEN <<>>
  ELSE LET c == Head(s) IN
    IF IsHighSurrogate(c) /\ Len(s) >= 2 /\ IsLowSurrogate(s[2])
      THEN Utf8Bytes(65536 + (c - 55296) * 1024 + (s[2] - 56320))
             \o Utf8Encode(Tail(Tail(s)))
    ELSE IF IsHighSurrogate(c) \/ IsLowSurrogate(c)
      THEN Utf8Bytes(65533) \o Utf8Encode(Tail(s))
    ELSE Utf8Bytes(c) \o Utf8Encode(Tail(s))

IsCont(b) == b >= 128 /\ b <= 191

\* the code units of the code point cp
CodeUnits(cp) ==
  IF cp < 65536 THEN <<cp>>
  ELSE <<55296 + ((cp - 65536) \div 1024), 56320 + ((cp - 65536) % 1024)>>

\* buf.toString('utf8'): every maximal ill-formed subsequence becomes U+FFFD
RECURSIVE Utf8Decode(_)
Utf8Decode(b) ==
  IF b = <<>> THEN <<>>
  ELSE LET
      b1 == b[1]
      n == Len(b)
      \* bounds of the second byte, which depend on the lead byte
      lo2 == IF b1 = 224 THEN 160 ELSE IF b1 = 240 THEN 144 ELSE 128
      hi2 == IF b1 = 237 THEN 159 ELSE IF b1 = 244 THEN 143 ELSE 191
      ok2 == n >= 2 /\ b[2] >= lo2 /\ b[2] <= hi2
      ok3 == ok2 /\ n >= 3 /\ IsCont(b[3])
      ok4 == ok3 /\ n >= 4 /\ IsCont(b[4])
      rest(k) == Utf8Decode(SubSeq(b, k + 1, n))
    IN
    IF b1 < 128 THEN <<b1>> \o rest(1)
    ELSE IF b1 >= 194 /\ b1 <= 223 THEN
      IF ok2 THEN <<(b1 - 192) * 64 + (b[2] - 128)>> \o rest(2)
      ELSE <<65533>> \o rest(1)
    ELSE IF b1 >= 224 /\ b1 <= 239 THEN
      IF ok3 THEN <<(b1 - 224) * 4096 + (b[2] - 128) * 64 + (b[3] - 128)>> \o rest(3)
      ELSE IF ok2 THEN <<65533>> \o rest(2)
      ELSE <<65533>> \o rest(1)
    ELSE IF b1 >= 240 /\ b1 <= 244 THEN
      IF ok4 THEN CodeUnits((b1 - 240) * 262144 + (b[2] - 128) * 4096
                              + (b[3] - 128) * 64 + (b[4] - 128)) \o rest(4)
      ELSE IF ok3 THEN <<65533>> \o rest(3)
      ELSE IF ok2 THEN <<65533>> \o rest(2)
      ELSE <<65533>> \o rest(1)
    ELSE <<65533>> \o rest(1)

\* the lowercase hex digit of n in 0..15, as a code unit
HexDigit(n) == IF n < 10 THEN 48 + n ELSE 87 + n

\* ToHex without the leading zero of a byte below 16
RECURSIVE ToHexUnpadded(_)
ToHexUnpadded(b) ==
  IF b = <<>> THEN <<>>
  ELSE (IF Head(b) < 16 THEN <<HexDigit(Head(b))>>
        ELSE <<HexDigit(Head(b) \div 16), HexDigit(Head(b) % 16)>>)
       \o ToHexUnpadded(Tail(b))

\* buf.toString('hex'): two lowercase digits per byte
RECURSIVE ToHex(_)
ToHex(b) ==
  IF b = <<>> THEN <<>>
  ELSE <<HexDigit(Head(b) \div 16), HexDigit(Head(b) % 16)>> \o ToHex(Tail(b))

\* the value of the hex digit c, or -1 when c is no hex digit
HexValue(c) ==
  IF c >= 48 /\ c <= 57 THEN c - 48
  ELSE IF c >= 97 /\ c <= 102 THEN c - 87
  ELSE IF c >= 65 /\ c <= 70 THEN c - 55
  ELSE -1

\* Buffer.from(s, 'hex'): whole pairs of digits, up to the first pair that
\* is not hex
RECURSIVE FromHex(_)
FromHex(s) ==
  IF Len(s) < 2 \/ HexValue(s[1]) < 0 \/ HexValue(s[2]) < 0 THEN <<>>
  ELSE <<HexValue(s[1]) * 16 + HexValue(s[2])>> \o FromHex(Tail(Tail(s)))

\* ------------------------------------------------------------------------
\* Byte-string codec
\* ------------------------------------------------------------------------

\* the character '\x00'
NUL == 0

\* Buffer.from(data, 'utf16le').toString('hex'): two bytes per code unit
RECURSIVE Utf16Hex(_)
Utf16Hex(data) ==
  IF data = <<>> THEN <<>>
  ELSE ToHex(<<Head(data) % 256, Head(data) \div 256>>) \o Utf16Hex(Tail(data))

\* Buffer.from(data, 'utf8').toString('hex')
Utf8Hex(data) == ToHex(Utf8Encode(data))

\* encodeHex without the single null byte for empty data
encodeHexNoSentinel(data) == <<48, 120>> \o Utf8Hex(data)

\* encodeHex(data): '0x' and the hex of the UTF-8 bytes, '0x00' for no bytes
encodeHex(data) ==
  LET encoded == Utf8Hex(data)
  IN IF encoded = <<>> THEN <<48, 120, 48, 48>> ELSE <<48, 120>> \o encoded

\* Buffer.from(data.replace('0x', ''), 'hex').toString('utf8')
HexUtf8(data) == Utf8Decode(FromHex(ReplaceFirst(data, <<48, 120>>, <<>>)))

\* decodeHex that returns a single NUL as it is
decodeHexNoSentinel(data) == HexUtf8(data)

\* decodeHex that returns '' for every text that begins with a NUL
decodeHexLeadingNul(data) ==
  LET decoded == HexUtf8(data)
  IN IF decoded # <<>> /\ decoded[1] = NUL THEN <<>> ELSE decoded

\* decodeHex(data): the text of the hex bytes, '' for a single NUL
decodeHex(data) ==
  LET decoded == HexUtf8(data)
  IN IF decoded = <<NUL>> THEN <<>> ELSE decoded

\* texts: NUL, line feed, 'a', e-acute (2 bytes), euro sign (3 bytes), a
\* high and a low surrogate (4 bytes as a pair), U+FFFD
TextAlphabet == {0, 10, 97, 233, 8364, 55357, 56832, 65533}
Texts == SeqsUpTo(TextAlphabet, MaxTextLen)

\* raw payloads: '0', '1', 'x', 'z'
PayloadAlphabet == {48, 49, 120, 122}
Payloads == SeqsUpTo(PayloadAlphabet, MaxPayloadLen)

HexIdle == [pc |-> "idle", src |-> "none", text |-> <<>>, payload |-> <<>>, decoded |-> <<>>]
LocIdle ==
  [pc |-> "idle", src |-> "none", pairs |-> <<>>,
   locator |-> [address |-> <<>>, schema |-> <<>>, type |-> <<>>],
   packed |-> <<>>,
   unpacked |-> [address |-> <<>>, schema |-> <<>>, type |-> <<>>],
   valid |-> FALSE, repacked |-> <<>>]
SubIdle ==
  [pc |-> "idle", src |-> "none", prefix |-> <<>>, poolLocator |-> <<>>, event |-> <<>>,
   data |-> <<>>,
   result |-> [prefix |-> <<>>, poolLocator |-> <<>>, event |-> <<>>]]
NoRequest ==
  [op |-> "none", type |-> <<>>, withData |-> "undefined", poolLocator |-> <<>>,
   data |-> <<>>, signer |-> <<>>, to |-> <<>>, from |-> <<>>, amount |-> <<>>,
   operator |-> <<>>, allowance |-> <<>>]
NoCall == [sent |-> FALSE, from |-> <<>>, to |-> <<>>, method |-> <<>>, params |-> <<>>]
NoTruth == [address |-> <<>>, schema |-> <<>>, type |-> <<>>]
SvcIdle ==
  [pc |-> "idle", req |-> NoRequest, truth |-> NoTruth, schema |-> <<>>,
   call |-> NoCall, status |-> 0]
NoAnswer ==
  [op |-> "none", status |-> 0, id |-> <<>>, message |-> "", poolLocator |-> <<>>,
   schema |-> <<>>, type |-> <<>>, withData |-> "undefined", address |-> <<>>,
   signer |-> <<>>, returned |-> <<>>, truth |-> NoTruth]
PoolsIdle == [handled |-> 0, packed |-> <<>>, calls |-> <<>>, queries |-> 0, last |-> NoAnswer]
RelayIdle ==
  [pc |-> "none", contract |-> "none", hub |-> "", recorded |-> "", sender |-> "",
   origin |-> "", viaHub |-> FALSE, reverted |-> FALSE, result |-> ""]

\* a caller holds a text to encode, or has received a payload to decode
InitHex ==
  /\ hex \in {[HexIdle EXCEPT !.pc = "start", !.src = "text", !.text = s] : s \in Texts}
          \cup {[HexIdle EXCEPT !.pc = "encoded", !.src = "raw", !.payload = p] : p \in Payloads}
  /\ loc = LocIdle
  /\ sub = SubIdle
  /\ svc = SvcIdle
  /\ pools = PoolsIdle
  /\ relay = RelayIdle

EncodeHexCall ==
  /\ hex.pc = "start"
  /\ hex' = [hex EXCEPT !.pc = "encoded", !.payload = encodeHex(hex.text)]
  /\ UNCHANGED <<loc, sub, svc, pools, relay>>

DecodeHexCall ==
  /\ hex.pc = "encoded"
  /\ hex' = [hex EXCEPT !.pc = "decoded", !.decoded = decodeHex(hex.payload)]
  /\ UNCHANGED <<loc, sub, svc, pools, relay>>

NextHex == EncodeHexCall \/ DecodeHexCall

SpecHex == InitHex /\ [][NextHex]_vars

\* C1: for every (UTF-8 representable) string s without a NUL character,
\* decodeHex(encodeHex(s)) equals s.
C1_RoundTrip ==
  (hex.pc = "decoded" /\ hex.src = "text" /\ IsWellFormed(hex.text)
     /\ \A i \in 1..Len(hex.text) : hex.text[i] # NUL)
    => hex.decoded = hex.text

\* a text with a one-byte, a small-byte, a three-byte and a four-byte
\* character has been encoded and decoded
C1_Witness ==
  /\ hex.pc = "decoded"
  /\ hex.src = "text"
  /\ hex.text = <<8364, 55357, 56832>>
  /\ hex.payload = <<48, 120, 101, 50, 56, 50, 97, 99, 102, 48, 57, 102, 57, 56, 56, 48>>

\* C2: encodeHex("") is exactly "0x00", never "0x"; decodeHex("0x00"), and
\* decodeHex of any input whose decoded text is exactly one NUL character,
\* is the empty string.
C2_EmptySentinel ==
  /\ (hex.pc \in {"encoded", "decoded"} /\ hex.src = "text" /\ hex.text = <<>>)
       => hex.payload = <<48, 120, 48, 48>>
  /\ (hex.pc = "decoded" /\ hex.payload = <<48, 120, 48, 48>>) => hex.decoded = <<>>
  /\ (hex.pc = "decoded" /\ HexUtf8(hex.payload) = <<NUL>>) => hex.decoded = <<>>

\* the empty string has been encoded to "0x00" and decoded to the empty string
C2_Witness ==
  /\ hex.pc = "decoded"
  /\ hex.src = "text"
  /\ hex.text = <<>>
  /\ hex.payload = <<48, 120, 48, 48>>
  /\ hex.decoded = <<>>

\* ------------------------------------------------------------------------
\* Locator codec
\* ------------------------------------------------------------------------

\* EncodedPoolLocatorEnum: 'address', 'schema', 'type' and the legacy 'standard'
KeyAddress == <<97, 100, 100, 114, 101, 115, 115>>
KeySchema == <<115, 99, 104, 101, 109, 97>>
KeyType == <<116, 121, 112, 101>>
KeyStandard == <<115, 116, 97, 110, 100, 97, 114, 100>>

\* the uppercase hex digit of n in 0..15, as a code unit
UpperHexDigit(n) == IF n < 10 THEN 48 + n ELSE 55 + n

\* IsFormSafe that leaves ':' as it is too, as encodeURI does
IsFormSafeWithColon(b) ==
  \/ b \in {42, 45, 46, 95, 58}
  \/ (b >= 48 /\ b <= 57)
  \/ (b >= 65 /\ b <= 90)
  \/ (b >= 97 /\ b <= 122)

\* the bytes the form-urlencoded serializer leaves as they are:
\* '*', '-', '.', '_', digits and letters
IsFormSafe(b) ==
  \/ b \in {42, 45, 46, 95}
  \/ (b >= 48 /\ b <= 57)
  \/ (b >= 65 /\ b <= 90)
  \/ (b >= 97 /\ b <= 122)

RECURSIVE FormEncodeBytes(_)
FormEncodeBytes(b) ==
  IF b = <<>> THEN <<>>
  ELSE (IF IsFormSafe(Head(b)) THEN <<Head(b)>>
        ELSE IF Head(b) = 32 THEN <<43>>
        ELSE <<37, UpperHexDigit(Head(b) \div 16), UpperHexDigit(Head(b) % 16)>>)
       \o FormEncodeBytes(Tail(b))

\* FormEncode that leaves every byte as it is
FormEncodeRaw(s) == Utf8Encode(s)

\* a name or value as URLSearchParams.toString() writes it
FormEncode(s) == FormEncodeBytes(Utf8Encode(s))

\* percent-decoding of bytes: '%' and two hex digits are one byte
RECURSIVE PercentDecode(_)
PercentDecode(b) ==
  IF b = <<>> THEN <<>>
  ELSE IF Head(b) = 37 /\ Len(b) >= 3 /\ HexValue(b[2]) >= 0 /\ HexValue(b[3]) >= 0
    THEN <<HexValue(b[2]) * 16 + HexValue(b[3])>> \o PercentDecode(SubSeq(b, 4, Len(b)))
  ELSE <<Head(b)>> \o PercentDecode(Tail(b))

\* '+' read as space
PlusToSpace(s) == [i \in 1..Len(s) |-> IF s[i] = 43 THEN 32 ELSE s[i]]

\* a name or value read without turning '+' into a space
FormDecodeKeepPlus(s) == Utf8Decode(PercentDecode(Utf8Encode(s)))

\* a name or value as the URLSearchParams parser reads it
FormDecode(s) == Utf8Decode(PercentDecode(Utf8Encode(PlusToSpace(s))))

\* s.split(sep) for a one-character separator: every part, empty ones too
RECURSIVE Split(_, _)
Split(s, sep) ==
  LET i == IndexOf(s, <<sep>>)
  IN IF i = 0 THEN <<s>>
     ELSE <<SubSeq(s, 1, i - 1)>> \o Split(SubSeq(s, i + 1, Len(s)), sep)

\* one 'name=value' piece of a query string: split at the first '='
ParsePair(piece) ==
  LET i == IndexOf(piece, <<61>>)
  IN IF i = 0 THEN <<FormDecode(piece), <<>>>>
     ELSE <<FormDecode(SubSeq(piece, 1, i - 1)), FormDecode(SubSeq(piece, i + 1, Len(piece)))>>

\* new URLSearchParams(data): the list of (name, value) pairs of a string
ParseParams(data) ==
  LET body == IF StartsWith(data, <<63>>) THEN Tail(data) ELSE data
      pieces == SelectSeq(Split(body, 38), LAMBDA x : x # <<>>)
  IN [i \in 1..Len(pieces) |-> ParsePair(pieces[i])]

\* params.get(name) that returns the value of the last pair called name
ParamsGetLast(params, name) ==
  LET hits == {i \in 1..Len(params) : params[i][1] = name}
  IN IF hits = {} THEN null
     ELSE params[CHOOSE i \in hits : \A j \in hits : i >= j][2]

\* params.get(name): the value of the first pair called name, or null
ParamsGet(params, name) ==
  LET hits == {i \in 1..Len(params) : params[i][1] = name}
  IN IF hits = {} THEN null
     ELSE params[CHOOSE i \in hits : \A j \in hits : i <= j][2]

\* params.toString()
RECURSIVE ParamsToString(_)
ParamsToString(params) ==
  IF params = <<>> THEN <<>>
  ELSE FormEncode(params[1][1]) \o <<61>> \o FormEncode(params[1][2])
       \o (IF Len(params) > 1 THEN <<38>> ELSE <<>>) \o ParamsToString(Tail(params))

\* packPoolLocator with the type before the schema
packPoolLocatorTypeFirst(locator) ==
  ParamsToString(<< <<KeyAddress, locator.address>>,
                    <<KeyType, locator.type>>,
                    <<KeySchema, locator.schema>> >>)

\* packPoolLocator(locator): address, schema and type in that order
packPoolLocator(locator) ==
  ParamsToString(<< <<KeyAddress, locator.address>>,
                    <<KeySchema, locator.schema>>,
                    <<KeyType, locator.type>> >>)

\* unpackPoolLocator that reads the legacy key before the current one
unpackPoolLocatorLegacyFirst(data) ==
  LET encoded == ParseParams(data)
  IN [address |-> ParamsGet(encoded, KeyAddress),
      schema |-> IF ParamsGet(encoded, KeyStandard) # null
                   THEN ParamsGet(encoded, KeyStandard)
                   ELSE ParamsGet(encoded, KeySchema),
      type |-> ParamsGet(encoded, KeyType)]

\* unpackPoolLocator that knows the current key only
unpackPoolLocatorNoLegacy(data) ==
  LET encoded == ParseParams(data)
  IN [address |-> ParamsGet(encoded, KeyAddress),
      schema |-> ParamsGet(encoded, KeySchema),
      type |-> ParamsGet(encoded, KeyType)]

\* unpackPoolLocator(data): schema from 'schema', else from 'standard'
unpackPoolLocator(data) ==
  LET encoded == ParseParams(data)
  IN [address |-> ParamsGet(encoded, KeyAddress),
      schema |-> IF ParamsGet(encoded, KeySchema) # null
                   THEN ParamsGet(encoded, KeySchema)
                   ELSE ParamsGet(encoded, KeyStandard),
      type |-> ParamsGet(encoded, KeyType)]

\* validatePoolLocator that does not look at the type
validatePoolLocatorNoType(poolLocator) ==
  poolLocator.address # null /\ poolLocator.schema # null

\* validatePoolLocator that also asks for fields that are not empty
validatePoolLocatorNonEmpty(poolLocator) ==
  /\ poolLocator.address \notin {null, <<>>}
  /\ poolLocator.schema \notin {null, <<>>}
  /\ poolLocator.type \notin {null, <<>>}

\* validatePoolLocator(poolLocator)
validatePoolLocator(poolLocator) ==
  poolLocator.address # null /\ poolLocator.schema # null /\ poolLocator.type # null

\* field values: '&', '=', ':', '%', '+', space, 'a', a high and a low surrogate
FieldAlphabet == {38, 61, 58, 37, 43, 32, 97, 55357, 56832}
WildFields == SeqsUpTo(FieldAlphabet, MaxFieldLen)
\* 'a' and '&='
PlainFields == {<<97>>, <<38, 61>>}

\* the locators handed to packPoolLocator: every field a string
ValidLocators ==
  {[address |-> a, schema |-> s, type |-> t] : a \in WildFields, s \in PlainFields, t \in PlainFields}
    \cup {[address |-> a, schema |-> s, type |-> t] : a \in PlainFields, s \in WildFields, t \in PlainFields}
    \cup {[address |-> a, schema |-> s, type |-> t] : a \in PlainFields, s \in PlainFields, t \in WildFields}

\* the locators handed to validatePoolLocator directly: fields null, '' or 'a'
PartialFields == {null, <<>>, <<97>>}
PartialLocators == [address : PartialFields, schema : PartialFields, type : PartialFields]

\* locator strings as received: name=value pieces in any order, values as
\* written on the wire: '', 'a', '%3Ab'
RawKeys == {KeyAddress, KeySchema, KeyStandard, KeyType}
RawValues == {<<>>, <<97>>, <<37, 51, 65, 98>>}
RawPairLists == SeqsUpTo(RawKeys \X RawValues, MaxPairs)

RECURSIVE JoinPairs(_)
JoinPairs(pairs) ==
  IF pairs = <<>> THEN <<>>
  ELSE pairs[1][1] \o <<61>> \o pairs[1][2]
       \o (IF Len(pairs) > 1 THEN <<38>> ELSE <<>>) \o JoinPairs(Tail(pairs))

InitLocator ==
  /\ loc \in {[LocIdle EXCEPT !.pc = "start", !.src = "struct", !.locator = l] : l \in ValidLocators}
          \cup {[LocIdle EXCEPT !.pc = "packed", !.src = "raw", !.pairs = ps,
                                !.packed = JoinPairs(ps)] : ps \in RawPairLists}
          \cup {[LocIdle EXCEPT !.pc = "unpacked", !.src = "partial", !.unpacked = l] : l \in PartialLocators}
  /\ hex = HexIdle
  /\ sub = SubIdle
  /\ svc = SvcIdle
  /\ pools = PoolsIdle
  /\ relay = RelayIdle

PackPoolLocatorCall ==
  /\ loc.pc = "start"
  /\ loc' = [loc EXCEPT !.pc = "packed", !.packed = packPoolLocator(loc.locator)]
  /\ UNCHANGED <<hex, sub, svc, pools, relay>>

UnpackPoolLocatorCall ==
  /\ loc.pc = "packed"
  /\ loc' = [loc EXCEPT !.pc = "unpacked", !.unpacked = unpackPoolLocator(loc.packed)]
  /\ UNCHANGED <<hex, sub, svc, pools, relay>>

ValidatePoolLocatorCall ==
  /\ loc.pc = "unpacked"
  /\ loc' = [loc EXCEPT !.pc = "validated", !.valid = validatePoolLocator(loc.unpacked)]
  /\ UNCHANGED <<hex, sub, svc, pools, relay>>

\* a caller packs again the locator it has unpacked and found valid
RepackPoolLocatorCall ==
  /\ loc.pc = "validated"
  /\ loc.valid
  /\ loc' = [loc EXCEPT !.pc = "repacked", !.repacked = packPoolLocator(loc.unpacked)]
  /\ UNCHANGED <<hex, sub, svc, pools, relay>>

NextLocator ==
  \/ PackPoolLocatorCall
  \/ UnpackPoolLocatorCall
  \/ ValidatePoolLocatorCall
  \/ RepackPoolLocatorCall

SpecLocator == InitLocator /\ [][NextLocator]_vars

\* the received string has a piece named key
HasKey(key) == \E i \in 1..Len(loc.pairs) : loc.pairs[i][1] = key
\* the decoded value of the first piece named key
FirstValue(key) ==
  FormDecode(loc.pairs[CHOOSE i \in 1..Len(loc.pairs) :
                         /\ loc.pairs[i][1] = key
                         /\ \A j \in 1..(i - 1) : loc.pairs[j][1] # key][2])
Unpacked == loc.pc \in {"unpacked", "validated"}

\* C3: for every valid structured locator L (address, schema and type all
\* strings, reserved characters such as '&', '=', ':', '%', '+' and space
\* included), unpackPoolLocator(packPoolLocator(L)) equals L field for field.
C3_LocatorRoundTrip ==
  (Unpacked /\ loc.src = "struct" /\ IsWellFormed(loc.locator.address)
     /\ IsWellFormed(loc.locator.schema) /\ IsWellFormed(loc.locator.type))
    => /\ loc.unpacked.address = loc.locator.address
       /\ loc.unpacked.schema = loc.locator.schema
       /\ loc.unpacked.type = loc.locator.type

\* a locator whose address is '&%' and whose schema is '&=' has been packed
\* and unpacked
C3_Witness ==
  /\ loc.pc = "unpacked"
  /\ loc.src = "struct"
  /\ loc.locator.address = <<38, 37>>
  /\ loc.locator.schema = <<38, 61>>
  /\ loc.packed # <<>>
  /\ loc.unpacked = loc.locator

\* C4: unpackPoolLocator of a string without the schema key but with the
\* legacy key 'standard' has the legacy key's value in the schema field, and
\* the locator is valid (the address and the type being there).
C4_LegacyKey ==
  (loc.src = "raw" /\ ~HasKey(KeySchema) /\ HasKey(KeyStandard))
    => /\ Unpacked => loc.unpacked.schema = FirstValue(KeyStandard)
       /\ (loc.pc = "validated" /\ HasKey(KeyAddress) /\ HasKey(KeyType)) => loc.valid

\* 'address=a&standard=%3Ab&type=a' has been unpacked and found valid
C4_Witness ==
  /\ loc.pc = "validated"
  /\ loc.src = "raw"
  /\ loc.pairs = << <<KeyAddress, <<97>>>>, <<KeyStandard, <<37, 51, 65, 98>>>>, <<KeyType, <<97>>>> >>
  /\ loc.unpacked.schema = <<58, 98>>
  /\ loc.valid

\* C5: when the string has the schema key, the schema field is that key's
\* value (the empty string too), whether or not the legacy key is there; the
\* legacy value is used only when the schema key is absent.
C5_SchemaPreferred ==
  (loc.src = "raw" /\ Unpacked)
    => /\ HasKey(KeySchema) => loc.unpacked.schema = FirstValue(KeySchema)
       /\ (HasKey(KeySchema) /\ HasKey(KeyStandard)
             /\ FirstValue(KeyStandard) # FirstValue(KeySchema))
            => loc.unpacked.schema # FirstValue(KeyStandard)

\* a string with the legacy key first and an empty schema key after it has
\* been unpacked
C5_Witness ==
  /\ loc.pc = "unpacked"
  /\ loc.src = "raw"
  /\ loc.pairs = << <<KeyStandard, <<97>>>>, <<KeySchema, <<>>>> >>
  /\ loc.unpacked.schema = <<>>

IsField(v) == v = null \/ \A i \in 1..Len(v) : v[i] \in 0..65535

\* C6: validatePoolLocator is false exactly when address, schema or type is
\* null; unpackPoolLocator always returns a locator, with null in every
\* field that the string has no key for.
C6_ValidIffNoNull ==
  /\ loc.pc = "validated"
       => (loc.valid = FALSE <=> (loc.unpacked.address = null \/ loc.unpacked.schema = null
                                    \/ loc.unpacked.type = null))
  /\ Unpacked
       => /\ IsField(loc.unpacked.address)
          /\ IsField(loc.unpacked.schema)
          /\ IsField(loc.unpacked.type)
  /\ (Unpacked /\ loc.src = "raw")
       => /\ ~HasKey(KeyAddress) => loc.unpacked.address = null
          /\ ~HasKey(KeyType) => loc.unpacked.type = null
          /\ (~HasKey(KeySchema) /\ ~HasKey(KeyStandard)) => loc.unpacked.schema = null

\* 'address=a&schema=a' (no type) has been unpacked and found invalid
C6_Witness ==
  /\ loc.pc = "validated"
  /\ loc.src = "raw"
  /\ loc.pairs = << <<KeyAddress, <<97>>>>, <<KeySchema, <<97>>>> >>
  /\ loc.unpacked = [address |-> <<97>>, schema |-> <<97>>, type |-> null]
  /\ loc.valid = FALSE

\* ------------------------------------------------------------------------
\* Subscription name codec
\* ------------------------------------------------------------------------

\* the delimiter ':'
COLON == 58

\* packSubscriptionName that joins the event also when there is none
packSubscriptionNameAlwaysEvent(prefix, poolLocator, event) ==
  prefix \o <<COLON>> \o poolLocator \o <<COLON>> \o (IF event = undefined THEN <<>> ELSE event)

\* packSubscriptionName(prefix, poolLocator, event): the parts joined by ':'
packSubscriptionName(prefix, poolLocator, event) ==
  IF event = undefined
    THEN prefix \o <<COLON>> \o poolLocator
    ELSE prefix \o <<COLON>> \o poolLocator \o <<COLON>> \o event

\* a split at the first ':' only, the second part being all that follows
SplitKeepRest(s) ==
  LET i == IndexOf(s, <<COLON>>)
  IN IF i = 0 THEN <<s>> ELSE <<SubSeq(s, 1, i - 1), SubSeq(s, i + 1, Len(s))>>

\* s.split(':', 2): the first two parts at most
SplitLimit2(s) ==
  LET parts == Split(s, COLON)
  IN IF Len(parts) > 2 THEN SubSeq(parts, 1, 2) ELSE parts

\* unpackSubscriptionName that matches the prefix without its delimiter
unpackSubscriptionNameNoColon(prefix, data) ==
  LET matches == StartsWith(data, prefix)
      parts == IF matches THEN SplitLimit2(SubSeq(data, Len(prefix) + 2, Len(data))) ELSE <<>>
  IN [prefix |-> prefix,
      poolLocator |-> IF matches /\ Len(parts) >= 1 THEN parts[1] ELSE undefined,
      event |-> IF matches /\ Len(parts) >= 2 THEN parts[2] ELSE undefined]

\* unpackSubscriptionName(prefix, data)
unpackSubscriptionName(prefix, data) ==
  LET matches == StartsWith(data, prefix \o <<COLON>>)
      parts == IF matches THEN SplitLimit2(SubSeq(data, Len(prefix) + 2, Len(data))) ELSE <<>>
  IN [prefix |-> prefix,
      poolLocator |-> IF matches /\ Len(parts) >= 1 THEN parts[1] ELSE undefined,
      event |-> IF matches /\ Len(parts) >= 2 THEN parts[2] ELSE undefined]

\* 'fly', 'fly:LOCATORSTR:Transfer', 'other:x', 'LOCATORSTR', 'Transfer'
StrFly == <<102, 108, 121>>
StrFlyLocatorTransfer == <<102, 108, 121, 58, 76, 79, 67, 65, 84, 79, 82, 83, 84, 82, 58, 84, 114, 97, 110, 115, 102, 101, 114>>
StrOtherX == <<111, 116, 104, 101, 114, 58, 120>>
StrLocatorStr == <<76, 79, 67, 65, 84, 79, 82, 83, 84, 82>>
StrTransfer == <<84, 114, 97, 110, 115, 102, 101, 114>>

\* prefixes and names: 'f', 'o' and ':'
Prefixes == SeqsUpTo({102, COLON}, MaxPrefixLen) \cup {StrFly}
Names == SeqsUpTo({102, 111, COLON}, MaxDataLen) \cup {StrFlyLocatorTransfer, StrOtherX, StrFly}

\* the locators of subscriptions, as packPoolLocator returns them: of an
\* address without and of one with reserved characters (':' among them)
SubscriptionLocators ==
  {packPoolLocator([address |-> a, schema |-> s, type |-> <<97>>]) :
     a \in {<<97>>, <<COLON>>, <<97, COLON, 38>>}, s \in {<<97>>, <<COLON, 61>>}}

\* event names over 'f' and ':', 'Transfer', and no event
Events == SeqsUpTo({102, COLON}, MaxEventLen) \cup {StrTransfer, undefined}

\* a caller holds the name of a subscription to unpack, or the parts of one
\* to pack
InitSub ==
  /\ sub \in {[SubIdle EXCEPT !.pc = "start", !.src = "raw", !.prefix = p, !.data = d] :
                p \in Prefixes, d \in Names}
          \cup {[SubIdle EXCEPT !.pc = "parts", !.src = "pack", !.prefix = p,
                                !.poolLocator = l, !.event = e] :
                   p \in Prefixes, l \in SubscriptionLocators, e \in Events}
  /\ hex = HexIdle
  /\ loc = LocIdle
  /\ svc = SvcIdle
  /\ pools = PoolsIdle
  /\ relay = RelayIdle

UnpackSubscriptionNameCall ==
  /\ sub.pc = "start"
  /\ sub' = [sub EXCEPT !.pc = "unpacked", !.result = unpackSubscriptionName(sub.prefix, sub.data)]
  /\ UNCHANGED <<hex, loc, svc, pools, relay>>

PackSubscriptionNameCall ==
  /\ sub.pc = "parts"
  /\ sub' = [sub EXCEPT !.pc = "start",
                         !.data = packSubscriptionName(sub.prefix, sub.poolLocator, sub.event)]
  /\ UNCHANGED <<hex, loc, svc, pools, relay>>

NextSub == UnpackSubscriptionNameCall \/ PackSubscriptionNameCall

SpecSub == InitSub /\ [][NextSub]_vars

IsOptionalString(v) == v = undefined \/ \A i \in 1..Len(v) : v[i] \in 0..65535

\* C7: unpackSubscriptionName(prefix, data) always returns a result with
\* the given prefix; poolLocator and event are undefined when data does not
\* start with prefix + ':', and poolLocator is defined when it does;
\* ("fly", "fly:LOCATORSTR:Transfer") gives "LOCATORSTR" and "Transfer",
\* ("fly", "other:x") gives neither.
C7_UnpackSubscription ==
  sub.pc = "unpacked"
    => /\ sub.result.prefix = sub.prefix
       /\ IsOptionalString(sub.result.poolLocator)
       /\ IsOptionalString(sub.result.event)
       /\ ~StartsWith(sub.data, sub.prefix \o <<COLON>>)
            => (sub.result.poolLocator = undefined /\ sub.result.event = undefined)
       /\ StartsWith(sub.data, sub.prefix \o <<COLON>>) => sub.result.poolLocator # undefined
       /\ (sub.prefix = StrFly /\ sub.data = StrFlyLocatorTransfer)
            => (sub.result.poolLocator = StrLocatorStr /\ sub.result.event = StrTransfer)
       /\ (sub.prefix = StrFly /\ sub.data = StrOtherX)
            => (sub.result.poolLocator = undefined /\ sub.result.event = undefined)

\* a name that begins with the prefix 'f' but not with 'f:' has been unpacked
C7_Witness ==
  /\ sub.pc = "unpacked"
  /\ sub.prefix = <<102>>
  /\ sub.data = <<102, 111, COLON, 102>>
  /\ sub.result.poolLocator = undefined
  /\ sub.result.event = undefined

\* ------------------------------------------------------------------------
\* Schema resolver and the requests that use it
\* ------------------------------------------------------------------------

\* TokenType
FUNGIBLE == <<102, 117, 110, 103, 105, 98, 108, 101>>
NONFUNGIBLE == <<110, 111, 110, 102, 117, 110, 103, 105, 98, 108, 101>>

\* the four schema names
ERC20WithData == <<69, 82, 67, 50, 48, 87, 105, 116, 104, 68, 97, 116, 97>>
ERC20NoData == <<69, 82, 67, 50, 48, 78, 111, 68, 97, 116, 97>>
ERC721WithData == <<69, 82, 67, 55, 50, 49, 87, 105, 116, 104, 68, 97, 116, 97>>
ERC721NoData == <<69, 82, 67, 55, 50, 49, 78, 111, 68, 97, 116, 97>>

\* getTokenSchema with withData false by default
getTokenSchemaDefaultFalse(type, withDataArg) ==
  LET withData == withDataArg = "true"
  IN IF type = FUNGIBLE
       THEN (IF withData THEN ERC20WithData ELSE ERC20NoData)
       ELSE (IF withData THEN ERC721WithData ELSE ERC721NoData)

\* getTokenSchema(type, withData = true); withDataArg is "true", "false" or
\* "undefined" (the argument left out)
getTokenSchema(type, withDataArg) ==
  LET withData == IF withDataArg = "undefined" THEN TRUE ELSE withDataArg = "true"
  IN IF type = FUNGIBLE
       THEN (IF withData THEN ERC20WithData ELSE ERC20NoData)
       ELSE (IF withData THEN ERC721WithData ELSE ERC721NoData)

\* the method names of the contracts
StrWithData == <<87, 105, 116, 104, 68, 97, 116, 97>>
MINT_WITH_DATA == <<109, 105, 110, 116, 87, 105, 116, 104, 68, 97, 116, 97>>
TRANSFER_WITH_DATA == <<116, 114, 97, 110, 115, 102, 101, 114, 87, 105, 116, 104, 68, 97, 116, 97>>
BURN_WITH_DATA == <<98, 117, 114, 110, 87, 105, 116, 104, 68, 97, 116, 97>>
APPROVE_WITH_DATA == <<97, 112, 112, 114, 111, 118, 101, 87, 105, 116, 104, 68, 97, 116, 97>>
MINT_NO_DATA == <<109, 105, 110, 116>>
TRANSFER_NO_DATA == <<116, 114, 97, 110, 115, 102, 101, 114, 70, 114, 111, 109>>
SAFE_TRANSFER_NO_DATA == <<115, 97, 102, 101, 84, 114, 97, 110, 115, 102, 101, 114, 70, 114, 111, 109>>
BURN_NO_DATA == <<98, 117, 114, 110>>
APPROVE_NO_DATA == <<97, 112, 112, 114, 111, 118, 101>>

Operations == {"mint", "transfer", "burn", "approval"}
WithDataSchemas == {ERC20WithData, ERC721WithData}
NoDataSchemas == {ERC20NoData, ERC721NoData}

\* the method of (schema, operation); undefined for a schema that is none
\* of the four
resolveMethod(schema, op) ==
  IF schema \in WithDataSchemas THEN
    (CASE op = "mint" -> MINT_WITH_DATA
       [] op = "transfer" -> TRANSFER_WITH_DATA
       [] op = "burn" -> BURN_WITH_DATA
       [] op = "approval" -> APPROVE_WITH_DATA)
  ELSE IF schema \in NoDataSchemas THEN
    (CASE op = "mint" -> MINT_NO_DATA
       [] op = "transfer" -> IF schema = ERC20NoData THEN TRANSFER_NO_DATA ELSE SAFE_TRANSFER_NO_DATA
       [] op = "burn" -> BURN_NO_DATA
       [] op = "approval" -> APPROVE_NO_DATA)
  ELSE undefined

\* the positional arguments of an operation, the encoded data last for a
\* with-data schema
buildArguments(schema, op, req) ==
  (CASE op = "mint" -> <<req.to, req.amount>>
     [] op = "transfer" -> <<req.from, req.to, req.amount>>
     [] op = "burn" -> <<req.from, req.amount>>
     [] op = "approval" -> <<req.operator, req.allowance>>)
  \o (IF schema \in WithDataSchemas
        THEN <<encodeHex(IF req.data = undefined THEN <<>> ELSE req.data)>>
        ELSE <<>>)

\* the values of the requests: signer and from '0x1', to '0x123', amount
\* '20', operator '2', allowance '100', contract '0x123456'
IDENTITY == <<48, 120, 49>>
StrTo == <<48, 120, 49, 50, 51>>
StrAmount == <<50, 48>>
StrOperator == <<50>>
StrAllowance == <<49, 48, 48>>
CONTRACT_ADDRESS == <<48, 120, 49, 50, 51, 52, 53, 54>>
\* a schema that is none of the four, and a type that is no TokenType
StrUnknownSchema == <<69, 82, 67, 49, 49, 53, 53>>
StrFunkible == <<102, 117, 110, 107, 105, 98, 108, 101>>

TypeOfSchema(s) == IF s \in {ERC20WithData, ERC20NoData} THEN FUNGIBLE ELSE NONFUNGIBLE

\* the pool locators of the requests, each with the locator it stands for
\* (a null schema where the string names none): packed by packPoolLocator,
\* with the keys in another order, with the legacy key, with both keys, and
\* without any schema
PoolLocatorInputs ==
  {[text |-> packPoolLocator([address |-> CONTRACT_ADDRESS, schema |-> s, type |-> TypeOfSchema(s)]),
    truth |-> [address |-> CONTRACT_ADDRESS, schema |-> s, type |-> TypeOfSchema(s)]] :
     s \in WithDataSchemas \cup NoDataSchemas \cup {StrUnknownSchema}}
  \cup
  {[text |-> JoinPairs(<< <<KeyType, FUNGIBLE>>, <<KeySchema, ERC20NoData>>, <<KeyAddress, CONTRACT_ADDRESS>> >>),
    truth |-> [address |-> CONTRACT_ADDRESS, schema |-> ERC20NoData, type |-> FUNGIBLE]],
   [text |-> JoinPairs(<< <<KeyAddress, CONTRACT_ADDRESS>>, <<KeyStandard, ERC20WithData>>, <<KeyType, FUNGIBLE>> >>),
    truth |-> [address |-> CONTRACT_ADDRESS, schema |-> ERC20WithData, type |-> FUNGIBLE]],
   [text |-> JoinPairs(<< <<KeyAddress, CONTRACT_ADDRESS>>, <<KeyStandard, ERC20NoData>>,
                          <<KeySchema, ERC20WithData>>, <<KeyType, FUNGIBLE>> >>),
    truth |-> [address |-> CONTRACT_ADDRESS, schema |-> ERC20WithData, type |-> FUNGIBLE]],
   [text |-> JoinPairs(<< <<KeyAddress, CONTRACT_ADDRESS>>, <<KeyType, FUNGIBLE>> >>),
    truth |-> [address |-> CONTRACT_ADDRESS, schema |-> null, type |-> FUNGIBLE]]}

\* the data of a request: none, '', 'a', the euro sign
DataInputs == {undefined, <<>>, <<97>>, <<8364>>}

OperationRequests ==
  {[NoRequest EXCEPT !.op = o, !.poolLocator = pl.text, !.data = d, !.signer = IDENTITY,
                     !.to = StrTo, !.from = IDENTITY, !.amount = StrAmount,
                     !.operator = StrOperator, !.allowance = StrAllowance] :
     o \in Operations, pl \in PoolLocatorInputs, d \in DataInputs}

SchemaRequests ==
  {[NoRequest EXCEPT !.op = "schema", !.type = t, !.withData = w] :
     t \in {FUNGIBLE, NONFUNGIBLE, StrFunkible}, w \in {"true", "false", "undefined"}}

TruthOf(text) == (CHOOSE pl \in PoolLocatorInputs : pl.text = text).truth

InitResolver ==
  /\ svc \in {[SvcIdle EXCEPT !.pc = "received", !.req = r, !.truth = TruthOf(r.poolLocator)] :
                r \in OperationRequests}
          \cup {[SvcIdle EXCEPT !.pc = "received", !.req = r] : r \in SchemaRequests}
  /\ hex = HexIdle
  /\ loc = LocIdle
  /\ sub = SubIdle
  /\ pools = PoolsIdle
  /\ relay = RelayIdle

GetTokenSchemaCall ==
  /\ svc.pc = "received"
  /\ svc.req.op = "schema"
  /\ svc' = [svc EXCEPT !.pc = "done", !.schema = getTokenSchema(svc.req.type, svc.req.withData)]
  /\ UNCHANGED <<hex, loc, sub, pools, relay>>

\* a mint, transfer, burn or approval: the locator is unpacked and checked,
\* the method and the arguments are resolved from its schema, and the call
\* is sent to the contract at its address
HandleOperation(op) ==
  /\ svc.pc = "received"
  /\ svc.req.op = op
  /\ LET poolLocator == unpackPoolLocator(svc.req.poolLocator)
         method == resolveMethod(poolLocator.schema, op)
     IN IF ~validatePoolLocator(poolLocator)
          THEN svc' = [svc EXCEPT !.pc = "done", !.status = 400]
        ELSE IF method = undefined
          THEN svc' = [svc EXCEPT !.pc = "done", !.status = 500]
        ELSE svc' = [svc EXCEPT !.pc = "done", !.status = 202,
                                !.call = [sent |-> TRUE, from |-> svc.req.signer,
                                          to |-> poolLocator.address, method |-> method,
                                          params |-> buildArguments(poolLocator.schema, op, svc.req)]]
  /\ UNCHANGED <<hex, loc, sub, pools, relay>>

Mint == HandleOperation("mint")
Transfer == HandleOperation("transfer")
Burn == HandleOperation("burn")
Approval == HandleOperation("approval")

NextResolver == GetTokenSchemaCall \/ Mint \/ Transfer \/ Burn \/ Approval

SpecResolver == InitResolver /\ [][NextResolver]_vars

\* C8: getTokenSchema is ERC20WithData for (fungible, true), ERC20NoData for
\* (fungible, false), ERC721WithData for (nonfungible, true), ERC721NoData
\* for (nonfungible, false), and with withData left out what it is for true.
C8_TokenSchema ==
  (svc.pc = "done" /\ svc.req.op = "schema")
    => /\ (svc.req.type = FUNGIBLE /\ svc.req.withData = "true") => svc.schema = ERC20WithData
       /\ (svc.req.type = FUNGIBLE /\ svc.req.withData = "false") => svc.schema = ERC20NoData
       /\ (svc.req.type = NONFUNGIBLE /\ svc.req.withData = "true") => svc.schema = ERC721WithData
       /\ (svc.req.type = NONFUNGIBLE /\ svc.req.withData = "false") => svc.schema = ERC721NoData
       /\ (svc.req.type = FUNGIBLE /\ svc.req.withData = "undefined") => svc.schema = ERC20WithData
       /\ (svc.req.type = NONFUNGIBLE /\ svc.req.withData = "undefined") => svc.schema = ERC721WithData

\* the schema of a fungible pool has been resolved with withData left out
C8_Witness ==
  /\ svc.pc = "done"
  /\ svc.req.op = "schema"
  /\ svc.req.type = FUNGIBLE
  /\ svc.req.withData = "undefined"
  /\ svc.schema = ERC20WithData

\* the request names a pool of one of the four schemas
OnKnownPool ==
  /\ svc.pc = "done"
  /\ svc.req.op \in Operations
  /\ svc.truth.schema \in WithDataSchemas \cup NoDataSchemas

\* C9: on a pool with a valid locator the arguments sent are mint [to,
\* amount], transfer [from, to, amount], burn [from, amount], approve
\* [operator, allowance], followed by exactly one more, encodeHex(data)
\* ("0x00" without data), if and only if the schema is a with-data schema.
C9_Arguments ==
  OnKnownPool
    => LET params == svc.call.params
           base == IF svc.req.op = "transfer" THEN 3 ELSE 2
           withData == svc.truth.schema \in WithDataSchemas
       IN /\ svc.call.sent
          /\ svc.req.op = "mint" => SubSeq(params, 1, 2) = <<StrTo, StrAmount>>
          /\ svc.req.op = "transfer" => SubSeq(params, 1, 3) = <<IDENTITY, StrTo, StrAmount>>
          /\ svc.req.op = "burn" => SubSeq(params, 1, 2) = <<IDENTITY, StrAmount>>
          /\ svc.req.op = "approval" => SubSeq(params, 1, 2) = <<StrOperator, StrAllowance>>
          /\ Len(params) = base + (IF withData THEN 1 ELSE 0)
          /\ (withData /\ svc.req.data = undefined) => params[base + 1] = <<48, 120, 48, 48>>
          /\ (withData /\ svc.req.data = <<>>) => params[base + 1] = <<48, 120, 48, 48>>
          /\ (withData /\ svc.req.data = <<97>>) => params[base + 1] = <<48, 120, 54, 49>>
          /\ (withData /\ svc.req.data = <<8364>>)
               => params[base + 1] = <<48, 120, 101, 50, 56, 50, 97, 99>>

\* a mint without data on an ERC20WithData pool has been sent with
\* ['0x123', '20', '0x00']
C9_Witness ==
  /\ svc.pc = "done"
  /\ svc.req.op = "mint"
  /\ svc.req.data = undefined
  /\ svc.truth.schema = ERC20WithData
  /\ svc.call.sent
  /\ svc.call.params = <<StrTo, StrAmount, <<48, 120, 48, 48>>>>

EndsWith(s, suffix) ==
  Len(suffix) <= Len(s) /\ SubSeq(s, Len(s) - Len(suffix) + 1, Len(s)) = suffix

\* C10: the method called is determined by the schema of the request's pool
\* locator: mintWithData, transferWithData, burnWithData, approveWithData
\* for ERC20WithData; mint, transferFrom, burn, approve for ERC20NoData; a
\* method of a with-data schema ends in WithData, one of a without-data
\* schema does not.
C10_Methods ==
  OnKnownPool
    => LET m == svc.call.method
           o == svc.req.op
       IN /\ svc.call.sent
          /\ svc.truth.schema = ERC20WithData
               => /\ o = "mint" => m = MINT_WITH_DATA
                  /\ o = "transfer" => m = TRANSFER_WITH_DATA
                  /\ o = "burn" => m = BURN_WITH_DATA
                  /\ o = "approval" => m = APPROVE_WITH_DATA
          /\ svc.truth.schema = ERC20NoData
               => /\ o = "mint" => m = MINT_NO_DATA
                  /\ o = "transfer" => m = TRANSFER_NO_DATA
                  /\ o = "burn" => m = BURN_NO_DATA
                  /\ o = "approval" => m = APPROVE_NO_DATA
          /\ svc.truth.schema \in WithDataSchemas => EndsWith(m, StrWithData)
          /\ svc.truth.schema \in NoDataSchemas => ~EndsWith(m, StrWithData)

\* a transfer on an ERC20NoData pool, its locator written with the keys in
\* another order, has been sent as transferFrom
C10_Witness ==
  /\ svc.pc = "done"
  /\ svc.req.op = "transfer"
  /\ StartsWith(svc.req.poolLocator, KeyType)
  /\ svc.truth.schema = ERC20NoData
  /\ svc.call.sent
  /\ svc.call.method = TRANSFER_NO_DATA

\* ------------------------------------------------------------------------
\* Further properties of the codecs
\* ------------------------------------------------------------------------

\* C14: for a type that is neither 'fungible' nor 'nonfungible',
\* getTokenSchema returns none of the four schema names.
C14_NoSilentDefault ==
  (svc.pc = "done" /\ svc.req.op = "schema" /\ svc.req.type \notin {FUNGIBLE, NONFUNGIBLE})
    => svc.schema \notin {ERC20WithData, ERC20NoData, ERC721WithData, ERC721NoData}

\* C16: whatever characters the address, the schema and the type of a valid
\* locator contain, ':' included, the string packPoolLocator returns
\* contains no ':'.
C16_NoColonInLocator ==
  (loc.src = "struct" /\ loc.pc \in {"packed", "unpacked", "validated"})
    => \A i \in 1..Len(loc.packed) : loc.packed[i] # COLON

\* a locator whose address is ':' has been packed, the ':' written as '%3A'
C16_Witness ==
  /\ loc.src = "struct"
  /\ loc.pc = "packed"
  /\ loc.locator.address = <<COLON>>
  /\ SubSeq(loc.packed, 1, 11) = KeyAddress \o <<61, 37, 51, 65>>

\* the number of bytes of the UTF-8 form of s: one, two or three for a code
\* unit, four for a surrogate pair, three for an unpaired surrogate
RECURSIVE ByteCount(_)
ByteCount(s) ==
  IF s = <<>> THEN 0
  ELSE IF Head(s) < 128 THEN 1 + ByteCount(Tail(s))
  ELSE IF Head(s) < 2048 THEN 2 + ByteCount(Tail(s))
  ELSE IF IsHighSurrogate(Head(s)) /\ Len(s) >= 2 /\ IsLowSurrogate(s[2])
    THEN 4 + ByteCount(Tail(Tail(s)))
  ELSE 3 + ByteCount(Tail(s))

IsLowerHexDigit(c) == (c >= 48 /\ c <= 57) \/ (c >= 97 /\ c <= 102)

\* C18: the result of encodeHex is '0x' followed by a non-zero, even number
\* of hex digits, two for every UTF-8 byte of the input (the two of '0x00'
\* for an input without bytes); it is never the bare '0x'.
C18_ValidPayload ==
  (hex.src = "text" /\ hex.pc \in {"encoded", "decoded"})
    => LET digits == SubSeq(hex.payload, 3, Len(hex.payload))
       IN /\ StartsWith(hex.payload, <<48, 120>>)
          /\ hex.payload # <<48, 120>>
          /\ Len(digits) > 0
          /\ Len(digits) % 2 = 0
          /\ \A i \in 1..Len(digits) : IsLowerHexDigit(digits[i])
          /\ hex.text # <<>> => Len(digits) = 2 * ByteCount(hex.text)
          /\ hex.text = <<>> => Len(digits) = 2

\* a text of one two-byte character has been encoded to '0xc3a9'
C18_Witness ==
  /\ hex.src = "text"
  /\ hex.pc = "encoded"
  /\ hex.text = <<233>>
  /\ hex.payload = <<48, 120, 99, 51, 97, 57>>

\* C17: packSubscriptionName joins the prefix, the locator string and, only
\* when there is one, the event with ':' in that order; for every prefix,
\* every locator string of packPoolLocator and every event without ':',
\* unpackSubscriptionName of the packed name returns the prefix, the locator
\* and the event, the event undefined when none was packed.
C17_SubscriptionRoundTrip ==
  (sub.src = "pack" /\ sub.pc \in {"start", "unpacked"})
    => /\ sub.event = undefined => sub.data = sub.prefix \o <<COLON>> \o sub.poolLocator
       /\ sub.event # undefined
            => sub.data = sub.prefix \o <<COLON>> \o sub.poolLocator \o <<COLON>> \o sub.event
       /\ (sub.pc = "unpacked"
             /\ (sub.event = undefined \/ \A i \in 1..Len(sub.event) : sub.event[i] # COLON))
            => sub.result = [prefix |-> sub.prefix, poolLocator |-> sub.poolLocator,
                             event |-> sub.event]

\* the name of a subscription without event, of a pool whose address holds
\* a ':', under the prefix 'f:', has been packed and unpacked
C17_Witness ==
  /\ sub.src = "pack"
  /\ sub.pc = "unpacked"
  /\ sub.prefix = <<102, COLON>>
  /\ sub.poolLocator = packPoolLocator([address |-> <<COLON>>, schema |-> <<97>>, type |-> <<97>>])
  /\ sub.event = undefined
  /\ sub.result.poolLocator = sub.poolLocator
  /\ sub.result.event = undefined

\* every text without an unpaired surrogate, with its payload
WellFormedTexts == {t \in Texts : IsWellFormed(t)}
Encodings == {<<t, encodeHex(t)>> : t \in WellFormedTexts}

\* the texts that share the payload '0x00'
NoData == {<<>>, <<NUL>>}

\* C21: the text of exactly one NUL is the only (UTF-8 representable) text
\* that decodeHex(encodeHex(s)) does not give back: it has the payload '0x00'
\* of the empty text and decodes to the empty text; every other text, a
\* longer text with NUL characters included, comes back unchanged and shares
\* its payload with no other text.
C21_OnlyNulLost ==
  (hex.src = "text" /\ hex.pc \in {"encoded", "decoded"} /\ IsWellFormed(hex.text)) =>
    /\ hex.text = <<NUL>> => hex.payload = encodeHex(<<>>)
    /\ hex.pc = "decoded" =>
         /\ hex.text = <<NUL>> => hex.decoded = <<>>
         /\ (hex.decoded # hex.text) <=> (hex.text = <<NUL>>)
    /\ \A other \in Encodings :
         (other[2] = hex.payload /\ other[1] # hex.text)
           => (other[1] \in NoData /\ hex.text \in NoData)

\* a text of three characters with a NUL in the middle has come back
C21_Witness ==
  /\ hex.src = "text"
  /\ hex.pc = "decoded"
  /\ hex.text = <<NUL, 97, NUL>>
  /\ hex.payload = <<48, 120, 48, 48, 54, 49, 48, 48>>
  /\ hex.decoded = hex.text

\* the names of the pieces of the received string, in their order
RawKeyOrder == [i \in 1..Len(loc.pairs) |-> loc.pairs[i][1]]

\* 'address=a&standard=a&type=a', 'address=a&schema=a&type=a'
StrLegacyLocator == <<97, 100, 100, 114, 101, 115, 115, 61, 97, 38, 115, 116, 97, 110, 100, 97, 114, 100, 61, 97, 38, 116, 121, 112, 101, 61, 97>>
StrCurrentLocator == <<97, 100, 100, 114, 101, 115, 115, 61, 97, 38, 115, 99, 104, 101, 109, 97, 61, 97, 38, 116, 121, 112, 101, 61, 97>>

\* C22: for every string s that packPoolLocator returns,
\* packPoolLocator(unpackPoolLocator(s)) is s, and a locator packed again
\* gives the same string; a received string that packPoolLocator has not
\* written (keys in another order, more or fewer keys, the schema under the
\* legacy key) is packed again to a different string.
C22_RepackStable ==
  loc.pc = "repacked" =>
    /\ loc.repacked = packPoolLocator(loc.unpacked)
    /\ packPoolLocator(unpackPoolLocator(loc.repacked)) = loc.repacked
    /\ loc.src = "struct" => loc.repacked = loc.packed
    /\ loc.src = "raw" =>
         (loc.repacked = loc.packed <=> RawKeyOrder = <<KeyAddress, KeySchema, KeyType>>)

\* a string with the schema under the legacy key has been unpacked and
\* packed again, to a string with the schema key
C22_Witness ==
  /\ loc.pc = "repacked"
  /\ loc.src = "raw"
  /\ loc.packed = StrLegacyLocator
  /\ loc.repacked = StrCurrentLocator
  /\ loc.repacked # loc.packed

\* 'address=&schema=&type='
StrEmptyLocator == <<97, 100, 100, 114, 101, 115, 115, 61, 38, 115, 99, 104, 101, 109, 97, 61, 38, 116, 121, 112, 101, 61>>

\* C23: a string whose keys are there with empty values unpacks to a locator
\* that validatePoolLocator accepts; a locator is valid as soon as no field
\* is null, whether or not a field is empty, the type a value of the
\* enumeration or the schema one of the four schema names.
C23_EmptyFieldsValid ==
  loc.pc = "validated" =>
    /\ loc.packed = StrEmptyLocator
         => (loc.unpacked = [address |-> <<>>, schema |-> <<>>, type |-> <<>>] /\ loc.valid)
    /\ (loc.src = "raw" /\ HasKey(KeyAddress) /\ HasKey(KeyType)
          /\ (HasKey(KeySchema) \/ HasKey(KeyStandard))) => loc.valid
    /\ (loc.unpacked.address # null /\ loc.unpacked.schema # null /\ loc.unpacked.type # null)
         => loc.valid

\* 'address=&schema=&type=' has been unpacked and found valid
C23_Witness ==
  /\ loc.pc = "validated"
  /\ loc.src = "raw"
  /\ loc.packed = StrEmptyLocator
  /\ loc.unpacked = [address |-> <<>>, schema |-> <<>>, type |-> <<>>]
  /\ loc.unpacked.type \notin {FUNGIBLE, NONFUNGIBLE}
  /\ loc.unpacked.schema \notin {ERC20WithData, ERC20NoData, ERC721WithData, ERC721NoData}
  /\ loc.valid

HasColon(s) == \E i \in 1..Len(s) : s[i] = COLON

\* the name without prefix + ':', and what follows its first ':'
Remainder == SubSeq(sub.data, Len(sub.prefix) + 2, Len(sub.data))
AfterFirstColon == SubSeq(Remainder, IndexOf(Remainder, <<COLON>>) + 1, Len(Remainder))

\* C24: the poolLocator and the event that unpackSubscriptionName returns
\* never hold a ':'; when the remainder after prefix + ':' has two or more
\* delimiters, poolLocator is the text before the first, event the text
\* between the first and the second, and the rest is dropped, so that an
\* event with a ':' that packSubscriptionName has written does not come back.
C24_SecondDelimiterCuts ==
  sub.pc = "unpacked" =>
    /\ sub.result.poolLocator # undefined => ~HasColon(sub.result.poolLocator)
    /\ sub.result.event # undefined => ~HasColon(sub.result.event)
    /\ (StartsWith(sub.data, sub.prefix \o <<COLON>>) /\ HasColon(Remainder)
          /\ HasColon(AfterFirstColon))
         => /\ sub.result.poolLocator = SubSeq(Remainder, 1, IndexOf(Remainder, <<COLON>>) - 1)
            /\ sub.result.event
                 = SubSeq(AfterFirstColon, 1, IndexOf(AfterFirstColon, <<COLON>>) - 1)
            /\ Len(sub.result.poolLocator) + Len(sub.result.event) + 2 <= Len(Remainder)
    /\ (sub.src = "pack" /\ sub.event # undefined /\ HasColon(sub.event))
         => sub.result.event # sub.event

\* the event 'f:' has been packed under the prefix 'f' and unpacked as 'f'
C24_Witness ==
  /\ sub.pc = "unpacked"
  /\ sub.src = "pack"
  /\ sub.prefix = <<102>>
  /\ sub.event = <<102, COLON>>
  /\ sub.result.poolLocator = sub.poolLocator
  /\ sub.result.event = <<102>>

\* ------------------------------------------------------------------------
\* The token service: pool creation and operations, one request after another
\* ------------------------------------------------------------------------

\* the validation of the type of a create-pool request that only asks for
\* a value that is not empty
IsTokenTypeNotEmpty(type) == type # <<>>

\* the validation of the type of a create-pool request: a value of TokenType
IsTokenType(type) == type \in {FUNGIBLE, NONFUNGIBLE}

\* the locator log after an operation that packs the locator it has unpacked
PackedAfterOperationRepacked(packed, poolLocator) ==
  IF validatePoolLocator(poolLocator) THEN Append(packed, packPoolLocator(poolLocator)) ELSE packed

\* the locator log after an operation: operations pack nothing
PackedAfterOperation(packed, poolLocator) == packed

\* the ids the blockchain connector answers a sent transaction with:
\* 'responseId' and '1'
StrResponseId == <<114, 101, 115, 112, 111, 110, 115, 101, 73, 100>>
StrOne == <<49>>
ResponseIds == {StrResponseId, StrOne}

\* the locators of the operation requests, each with the locator it stands
\* for: two pools as packPoolLocator writes them, a string without schema,
\* and a string that names the address twice
ServiceLocatorInputs ==
  {[text |-> packPoolLocator([address |-> CONTRACT_ADDRESS, schema |-> ERC20WithData, type |-> FUNGIBLE]),
    truth |-> [address |-> CONTRACT_ADDRESS, schema |-> ERC20WithData, type |-> FUNGIBLE]],
   [text |-> packPoolLocator([address |-> StrTo, schema |-> ERC20NoData, type |-> FUNGIBLE]),
    truth |-> [address |-> StrTo, schema |-> ERC20NoData, type |-> FUNGIBLE]],
   [text |-> JoinPairs(<< <<KeyAddress, CONTRACT_ADDRESS>>, <<KeyType, FUNGIBLE>> >>),
    truth |-> [address |-> CONTRACT_ADDRESS, schema |-> null, type |-> FUNGIBLE]],
   [text |-> JoinPairs(<< <<KeyAddress, CONTRACT_ADDRESS>>, <<KeySchema, ERC20WithData>>,
                          <<KeyType, FUNGIBLE>>, <<KeyAddress, IDENTITY>> >>),
    truth |-> [address |-> CONTRACT_ADDRESS, schema |-> ERC20WithData, type |-> FUNGIBLE]]}

InitService ==
  /\ pools = [PoolsIdle EXCEPT !.last = [NoAnswer EXCEPT !.op = "start"]]
  /\ hex = HexIdle
  /\ loc = LocIdle
  /\ sub = SubIdle
  /\ svc = SvcIdle
  /\ relay = RelayIdle

\* POST /createpool: the type is validated; the schema is resolved from the
\* type and the with-data flag, the name and the symbol are queried, and the
\* locator is packed and returned
CreatePoolRequest ==
  /\ pools.handled < MaxRequests
  /\ \E type \in {FUNGIBLE, NONFUNGIBLE, StrFunkible},
        address \in {CONTRACT_ADDRESS, StrTo},
        withData \in {"true", "false", "undefined"} :
       LET request == [NoAnswer EXCEPT !.op = "createpool", !.type = type, !.address = address,
                                       !.withData = withData, !.signer = IDENTITY,
                                       !.schema = undefined, !.poolLocator = undefined]
       IN IF ~IsTokenType(type)
            THEN pools' = [pools EXCEPT !.handled = @ + 1,
                             !.last = [request EXCEPT !.status = 400,
                                         !.message = "type must be a valid enum value"]]
            ELSE LET schema == getTokenSchema(type, withData)
                     poolLocator == packPoolLocator([address |-> address, schema |-> schema,
                                                      type |-> type])
                 IN pools' = [pools EXCEPT !.handled = @ + 1,
                                !.queries = @ + 2,
                                !.packed = Append(@, poolLocator),
                                !.last = [request EXCEPT !.status = 200, !.schema = schema,
                                            !.poolLocator = poolLocator]]
  /\ UNCHANGED <<hex, loc, sub, svc, relay>>

\* POST /mint, /transfer, /burn, /approval: as HandleOperation, the call
\* sent once and the request answered with the id the connector returns
OperationRequest(op) ==
  /\ pools.handled < MaxRequests
  /\ \E input \in ServiceLocatorInputs, returned \in ResponseIds :
       LET req == [NoRequest EXCEPT !.op = op, !.poolLocator = input.text, !.data = undefined,
                                    !.signer = IDENTITY, !.to = StrTo, !.from = IDENTITY,
                                    !.amount = StrAmount, !.operator = StrOperator,
                                    !.allowance = StrAllowance]
           request == [NoAnswer EXCEPT !.op = op, !.poolLocator = input.text,
                                       !.signer = req.signer, !.truth = input.truth]
           poolLocator == unpackPoolLocator(req.poolLocator)
           method == resolveMethod(poolLocator.schema, op)
       IN IF ~validatePoolLocator(poolLocator)
            THEN pools' = [pools EXCEPT !.handled = @ + 1, !.last = [request EXCEPT !.status = 400]]
          ELSE IF method = undefined
            THEN pools' = [pools EXCEPT !.handled = @ + 1, !.last = [request EXCEPT !.status = 500]]
          ELSE pools' = [pools EXCEPT !.handled = @ + 1,
                           !.packed = PackedAfterOperation(@, poolLocator),
                           !.calls = Append(@, [sent |-> TRUE, from |-> req.signer,
                                                to |-> poolLocator.address, method |-> method,
                                                params |-> buildArguments(poolLocator.schema, op, req)]),
                           !.last = [request EXCEPT !.status = 202, !.id = returned,
                                       !.returned = returned]]
  /\ UNCHANGED <<hex, loc, sub, svc, relay>>

MintRequest == OperationRequest("mint")
TransferRequest == OperationRequest("transfer")
BurnRequest == OperationRequest("burn")
ApprovalRequest == OperationRequest("approval")

NextService ==
  CreatePoolRequest \/ MintRequest \/ TransferRequest \/ BurnRequest \/ ApprovalRequest

SpecService == InitService /\ [][NextService]_vars

\* 'address=', '&schema=ERC20WithData&type=fungible'
StrAddressEquals == <<97, 100, 100, 114, 101, 115, 115, 61>>
StrWithDataFungibleTail == <<38, 115, 99, 104, 101, 109, 97, 61, 69, 82, 67, 50, 48, 87, 105, 116, 104, 68, 97, 116, 97, 38, 116, 121, 112, 101, 61, 102, 117, 110, 103, 105, 98, 108, 101>>

Created == pools.last.op = "createpool" /\ pools.last.status = 200

C12_OneCallPerRequest ==
  [][(pools'.last.op \in Operations /\ pools'.last.status = 202)
       => /\ Len(pools'.calls) = Len(pools.calls) + 1
          /\ SubSeq(pools'.calls, 1, Len(pools.calls)) = pools.calls
          /\ pools'.calls[Len(pools'.calls)].to = pools'.last.truth.address
          /\ pools'.calls[Len(pools'.calls)].from = pools'.last.signer
          /\ pools'.last.id = pools'.last.returned]_vars

\* two operations have been accepted one after the other, the second on a
\* locator that names the address twice, and two calls have been sent
C12_Witness ==
  /\ pools.handled = 2
  /\ Len(pools.calls) = 2
  /\ pools.last.op \in Operations
  /\ pools.last.status = 202
  /\ pools.last.id = StrOne
  /\ pools.calls[2].to = CONTRACT_ADDRESS
  /\ pools.calls[2].from = IDENTITY
  /\ Len(pools.last.poolLocator) > Len(StrAddressEquals \o CONTRACT_ADDRESS \o StrWithDataFungibleTail)

\* C13 as claimed: an operation is accepted only on a locator that a pool
\* creation has packed before, and no locator is packed twice.
C13_AcceptedOnlyAfterCreation ==
  /\ (pools.last.op \in Operations /\ pools.last.status = 202)
       => \E i \in 1..Len(pools.packed) : pools.packed[i] = pools.last.poolLocator
  /\ \A i, j \in 1..Len(pools.packed) : pools.packed[i] = pools.packed[j] => i = j

\* C13 as amended: packPoolLocator is called by pool creation only, once for
\* every creation that is accepted; a mint, transfer, burn or approval packs
\* nothing, whether it is accepted or not.
C13_PackedOnlyByCreation ==
  [][/\ pools'.last.op \in Operations => pools'.packed = pools.packed
     /\ (pools'.last.op = "createpool" /\ pools'.last.status = 200)
          => pools'.packed = Append(pools.packed, pools'.last.poolLocator)
     /\ (pools'.last.op = "createpool" /\ pools'.last.status # 200)
          => pools'.packed = pools.packed]_vars

\* a pool has been created and an operation on its locator accepted, the
\* locator packed once
C13_Witness ==
  /\ pools.handled = 2
  /\ Len(pools.packed) = 1
  /\ pools.last.op \in Operations
  /\ pools.last.status = 202
  /\ pools.last.poolLocator = pools.packed[1]

\* C15: a create-pool request whose type is neither 'fungible' nor
\* 'nonfungible' is answered 400 'type must be a valid enum value'; no
\* schema is resolved, no locator packed and no call made for it.
C15_InvalidTypeRejected ==
  [][(pools'.last.op = "createpool" /\ pools'.last.type \notin {FUNGIBLE, NONFUNGIBLE})
       => /\ pools'.last.status = 400
          /\ pools'.last.message = "type must be a valid enum value"
          /\ pools'.last.schema = undefined
          /\ pools'.last.poolLocator = undefined
          /\ pools'.packed = pools.packed
          /\ pools'.calls = pools.calls
          /\ pools'.queries = pools.queries]_vars

\* after a pool creation, a create-pool request of type 'funkible' has been
\* rejected
C15_Witness ==
  /\ pools.handled = 2
  /\ pools.last.op = "createpool"
  /\ pools.last.type = StrFunkible
  /\ pools.last.status = 400
  /\ Len(pools.packed) = 1
  /\ pools.calls = <<>>

\* ------------------------------------------------------------------------
\* The relay recipients: _msgSender of Context and of the two
\* BaseRelayRecipient contracts
\* ------------------------------------------------------------------------

\* the return data of a call that returned nothing (the call failed, or no
\* contract is deployed at the trusted forwarder's address)
EmptyBytes == ""

\* the outcome of a _msgSender that reverted
Revert == "revert"

\* the zero address, and the accounts that call and that a relay hub may have
ZeroAddress == "0x0"
Accounts == {"0xA", "0xB", "0xC"}

\* abi.decode(data, (address)): reverts on data too short for an address
abiDecodeAddress(data) == IF data = EmptyBytes THEN Revert ELSE data

\* Context._msgSender that answers with the forwarder's sender whoever calls
Context_msgSenderNoHubCheck(msgSender, bytesRelayHub, bytesSender) ==
  IF abiDecodeAddress(bytesRelayHub) = Revert THEN Revert
  ELSE abiDecodeAddress(bytesSender)

\* Context._msgSender: bytesRelayHub is the forwarder's reply to
\* getRelayHub(), bytesSender the reply it gives to getMsgSender()
Context_msgSender(msgSender, bytesRelayHub, bytesSender) ==
  IF abiDecodeAddress(bytesRelayHub) = Revert THEN Revert
  ELSE IF msgSender = abiDecodeAddress(bytesRelayHub)
         THEN abiDecodeAddress(bytesSender)
         ELSE msgSender

\* BaseRelayRecipient._msgSender of tokens.util.ts, which checks the hub
BaseRelayRecipient_msgSender(msgSender, bytesRelayHub, bytesSender) ==
  IF abiDecodeAddress(bytesRelayHub) = Revert THEN Revert
  ELSE IF msgSender = abiDecodeAddress(bytesRelayHub)
         THEN abiDecodeAddress(bytesSender)
         ELSE msgSender

\* BaseRelayRecipient._msgSender of part_002: it asks the forwarder for
\* getMsgSender() only, and never for the hub
BaseRelayRecipientNoHub_msgSender(msgSender, bytesSender) ==
  abiDecodeAddress(bytesSender)

ContextContract == "Context"
HubCheckingRecipient == "BaseRelayRecipient (tokens.util.ts)"
NoHubRecipient == "BaseRelayRecipient (part_002)"
RelayContracts == {ContextContract, HubCheckingRecipient, NoHubRecipient}

\* a recipient contract and the forwarder at its trustedForwarder address:
\* either no contract is deployed there and every call to it returns
\* nothing, or it is a forwarder with a relay hub and with the sender it has
\* recorded last (the zero address before its first relayed call)
InitRelay ==
  /\ relay \in {[RelayIdle EXCEPT !.pc = "idle", !.contract = c,
                                  !.hub = EmptyBytes, !.recorded = EmptyBytes] :
                  c \in RelayContracts}
          \cup {x \in {[RelayIdle EXCEPT !.pc = "idle", !.contract = c, !.hub = h,
                                          !.recorded = r] :
                          c \in RelayContracts, h \in Accounts,
                          r \in Accounts \cup {ZeroAddress}} :
                  x.recorded # x.hub}
  /\ hex = HexIdle
  /\ loc = LocIdle
  /\ sub = SubIdle
  /\ svc = SvcIdle
  /\ pools = PoolsIdle

\* a call that comes through the relay hub: the forwarder records the
\* original sender, and the hub calls the recipient
RelayedCall ==
  /\ relay.pc \in {"idle", "returned"}
  /\ relay.hub # EmptyBytes
  /\ \E origin \in Accounts \ {relay.hub} :
       relay' = [relay EXCEPT !.pc = "called", !.sender = relay.hub, !.origin = origin,
                              !.recorded = origin, !.viaHub = TRUE,
                              !.reverted = FALSE, !.result = EmptyBytes]
  /\ UNCHANGED <<hex, loc, sub, svc, pools>>

\* a call that does not come through the relay hub: an account or another
\* contract calls the recipient, and the forwarder keeps what it has recorded
DirectCall ==
  /\ relay.pc \in {"idle", "returned"}
  /\ \E caller \in Accounts \ {relay.hub} :
       relay' = [relay EXCEPT !.pc = "called", !.sender = caller, !.origin = caller,
                              !.viaHub = FALSE,
                              !.reverted = FALSE, !.result = EmptyBytes]
  /\ UNCHANGED <<hex, loc, sub, svc, pools>>

\* the outcome of _msgSender in the called function
MsgSenderReturns(result) ==
  relay' = [relay EXCEPT !.pc = "returned", !.reverted = (result = Revert),
                         !.result = IF result = Revert THEN EmptyBytes ELSE result]

Context_msgSenderCall ==
  /\ relay.pc = "called"
  /\ relay.contract = ContextContract
  /\ MsgSenderReturns(Context_msgSender(relay.sender, relay.hub, relay.recorded))
  /\ UNCHANGED <<hex, loc, sub, svc, pools>>

BaseRelayRecipient_msgSenderCall ==
  /\ relay.pc = "called"
  /\ relay.contract = HubCheckingRecipient
  /\ MsgSenderReturns(BaseRelayRecipient_msgSender(relay.sender, relay.hub, relay.recorded))
  /\ UNCHANGED <<hex, loc, sub, svc, pools>>

BaseRelayRecipientNoHub_msgSenderCall ==
  /\ relay.pc = "called"
  /\ relay.contract = NoHubRecipient
  /\ MsgSenderReturns(BaseRelayRecipientNoHub_msgSender(relay.sender, relay.recorded))
  /\ UNCHANGED <<hex, loc, sub, svc, pools>>

NextRelay ==
  \/ RelayedCall
  \/ DirectCall
  \/ Context_msgSenderCall
  \/ BaseRelayRecipient_msgSenderCall
  \/ BaseRelayRecipientNoHub_msgSenderCall

SpecRelay == InitRelay /\ [][NextRelay]_vars

\* C19: in Context and in the hub-checking BaseRelayRecipient, a _msgSender
\* that returns gives the original sender that the forwarder reports when
\* the direct caller is the forwarder's relay hub, and the direct caller
\* itself for every other caller; it reverts exactly when the forwarder
\* returns nothing
C19_HubCheckedSender ==
  (relay.pc = "returned" /\ relay.contract \in {ContextContract, HubCheckingRecipient}) =>
    /\ relay.reverted <=> (relay.hub = EmptyBytes)
    /\ (~relay.reverted /\ relay.sender = relay.hub) =>
         (relay.result = relay.recorded /\ relay.result = relay.origin)
    /\ (~relay.reverted /\ relay.sender # relay.hub) => relay.result = relay.sender

\* a direct call to Context by an account that is not the hub, while the
\* forwarder holds the sender of an earlier relayed call
C19_Witness ==
  /\ relay.pc = "returned"
  /\ relay.contract = ContextContract
  /\ ~relay.viaHub
  /\ ~relay.reverted
  /\ relay.recorded \in Accounts
  /\ relay.recorded # relay.sender
  /\ relay.result = relay.sender

\* C20: in the BaseRelayRecipient of part_002, a _msgSender that returns
\* gives the sender of the current call: the original sender of a call that
\* came through the relay hub, the direct caller of any other call
C20_SenderOfCurrentCall ==
  (relay.pc = "returned" /\ relay.contract = NoHubRecipient /\ ~relay.reverted) =>
    relay.result = relay.origin


\* ------------------------------------------------------------------------
\* The codecs, the resolver, the service and the relay recipients together
\* ------------------------------------------------------------------------

Init == InitHex \/ InitLocator \/ InitSub \/ InitResolver \/ InitService \/ InitRelay

Next == NextHex \/ NextLocator \/ NextSub \/ NextResolver \/ NextService \/ NextRelay

Spec == Init /\ [][Next]_vars

====
